---- MODULE Spec2Model ----
(***************************************************************************)
(* Model of the two validator scripts neurons/validator.py and             *)
(* neurons/validator_2.py: the seeded key -> hash validation set with its  *)
(* pickle cache file, and the validation loop (query, match scoring,       *)
(* weight submission, metagraph refresh, sleep, exception handlers).       *)
(*                                                                         *)
(* A float32 (a score, a weight) is the pair <<m, e>> standing for         *)
(* m * 2^e, with m = 0 or 2^23 <= m < 2^24; the arithmetic on them rounds  *)
(* to nearest, ties to even, as binary32 does.                             *)
(* An optional value (the --seed argument, the cache file, the last        *)
(* submission) is a sequence of length 0 (None / absent) or 1.             *)
(***************************************************************************)
EXTENDS Integers, Sequences, FiniteSets, TLC

VARIABLES
    file,            \* validationset.sav: <<>> (absent) or <<its content>>
    lastCall,        \* what the last validation_set call saw and did
    remembered,      \* some earlier generate_key_value_pairs call that returned
    lastGen,         \* the latest generate_key_value_pairs call that returned
    genRaised,       \* the exception of the last generate_key_value_pairs call
    script,          \* 1: validator.py, 2: validator_2.py
    validation_hash, \* the dict main() iterates, in insertion order
    pos,             \* 1-based position of the for loop in validation_hash
    pc,              \* where main() stands
    metagraph,       \* number of peers in the metagraph main() holds
    scores,          \* the score tensor (float32)
    responses,       \* the responses of the round under way, <<>> between rounds
    i,               \* index of enumerate(responses), 0-based, 0 between rounds
    queried,         \* the keys passed to dendrite.query so far, in order
    sinceQuery,      \* refreshes and sleeps done since the last query
    raised,          \* the exception the last step raised, "" for none
    scoredRound,     \* score writes done in the current round
    subsRound,       \* set_weights calls made in the current round
    loggedRound,     \* set_weights results logged in the current round
    lastSub,         \* <<>> or <<the set_weights call made for response i of the round under way>>
    lastScored,      \* <<>> or <<the last score write of the current round>>
    errorLogged,     \* the RuntimeError handler logged the error of the last round
    interrupted      \* a KeyboardInterrupt was raised

cacheVars == <<file, lastCall, remembered, lastGen, genRaised>>
loopVars == <<script, validation_hash, pos, pc, metagraph, scores, responses, i,
              queried, sinceQuery, raised, scoredRound, subsRound,
              loggedRound, lastSub, lastScored, errorLogged, interrupted>>
vars == <<file, lastCall, remembered, lastGen, genRaised,
          script, validation_hash, pos, pc, metagraph, scores, responses, i,
          queried, sinceQuery, raised, scoredRound, subsRound,
          loggedRound, lastSub, lastScored, errorLogged, interrupted>>

(***************************************************************************)
(* Bounds of the model.                                                    *)
(***************************************************************************)
MaxSeed == 2
MaxN == 3
MaxPeers == 3

(***************************************************************************)
(* Command line values.                                                    *)
(***************************************************************************)
None == <<>>
Seeds == {None} \cup {<<s>> : s \in 0..MaxSeed}

\* A length is an int or the text of a number.
IntLot(n) == [type |-> "int", val |-> n]
StrLot(n) == [type |-> "str", val |-> n]

\* --validation_lot has default=10 and no type: the default is the int 10,
\* a value given on the command line stays a str.
DefaultLot == 10
ConfigLots == {IntLot(DefaultLot), StrLot(MaxN)}

\* The lengths a direct call of generate_key_value_pairs is tried with.
CallLots == {IntLot(n) : n \in 0..MaxN} \cup {StrLot(MaxN)}

\* Python truth value of the --seed argument: None and 0 are false.
Truthy(seed) == seed # None /\ seed[1] # 0

(***************************************************************************)
(* random: the Mersenne Twister of the standard library. Its state after   *)
(* random.seed is named by the int that was given; the words it then       *)
(* returns are a function of that state.                                   *)
(***************************************************************************)
RECURSIVE Pow2(_)
Pow2(n) == IF n = 0 THEN 1 ELSE 2 * Pow2(n - 1)

\* The top 14 bits of the 32-bit words the generator returns after
\* random.seed(s), i.e. the successive values of random.getrandbits(14).
Words14(s) ==
    CASE s = 0 -> <<13835, 6311, 12418, 14585, 6890, 663, 4242, 15818, 8376,
                    7961, 6634, 15044, 12841, 13596, 4969, 15856, 7808, 5866>>
      [] s = 1 -> <<2201, 9325, 13884, 13144, 12513, 1033, 4179, 1931, 8117,
                    12467, 7364, 7737, 10675, 6219, 12922, 3439>>
      [] s = 2 -> <<15663, 14141, 15529, 13910, 926, 1500, 1390, 5915, 13688,
                    2770, 12058, 13254, 10972, 13989, 5048, 4121, 9927, 3476,
                    9941>>
      [] s = 3 -> <<3898, 9709, 8916, 2136, 6061, 15006, 9894, 7766, 10251,
                    9516, 1073, 9922>>
      [] s = 4 -> <<3867, 4969, 1690, 11816, 6489, 7845, 2539, 1476, 1089,
                    324, 6579>>
      [] s = 5 -> <<10205, 4185, 12153, 5874, 13028, 11312, 15441, 13787,
                    12122, 10682, 15111, 8684, 475, 13768, 7628, 12713, 15455,
                    4080, 10632, 849, 14760, 2569, 1854, 6091>>
      [] s = 722 -> <<10000, 11412, 2483, 2986, 4991, 14602, 8727, 7155, 4564,
                      2422, 4476, 3654>>
      [] s = 4099 -> <<6170, 6170, 401, 5913, 6323, 11028, 11782, 3537, 6723,
                       10854, 15827, 1881, 2323, 7756>>
      [] s = 6058 -> <<13432, 7576, 10935, 12901, 10531, 16315, 13245, 2606, 0,
                       3747, 13962, 5084, 1563, 4015, 8273, 10467, 12292,
                       14438, 2766, 4405>>
WordBits == 14

\* random.seed(None) seeds the generator from OS entropy: every generator
\* state can result. The states tried are named by the int seed that gives
\* the same state: one whose first key is 10000, one whose first two keys
\* are equal, one whose third key is 0.
OsEntropy == {722, 4099, 6058}

\* random.seed(seed): an int fixes the state, None takes it from the OS.
\* A generator state is the seeding and the number of words drawn since.
RandomSeed(seed, entropy) ==
    [seeded |-> IF seed = None THEN entropy ELSE seed[1], drawn |-> 0]
RngStep(s) == [s EXCEPT !.drawn = s.drawn + 1]

\* n.bit_length()
RECURSIVE BitLength(_)
BitLength(n) == IF n = 0 THEN 0 ELSE 1 + BitLength(n \div 2)

\* random.getrandbits(k), k <= 14: the top k bits of the next word.
GetRandBits(k, s) == Words14(s.seeded)[s.drawn + 1] \div Pow2(WordBits - k)

\* _randbelow(n): k = n.bit_length(); r = getrandbits(k);
\* while r >= n: r = getrandbits(k). Gives <<r, generator state after>>.
RECURSIVE RandBelow(_, _)
RandBelow(n, s) ==
    LET r == GetRandBits(BitLength(n), s)
    IN IF r >= n THEN RandBelow(n, RngStep(s)) ELSE <<r, RngStep(s)>>

KeyLow == 0
KeyHigh == 10000
\* random.randint(a, b) = a + _randbelow(b - a + 1) on generator state s:
\* <<the int, generator state after>>.
RandIntNoRetry(a, b, s) ==
    <<a + GetRandBits(BitLength(b - a + 1), s), RngStep(s)>>
RandInt(a, b, s) ==
    LET d == RandBelow(b - a + 1, s) IN <<a + d[1], d[2]>>

(***************************************************************************)
(* str(key).encode() and hashlib.sha256(...).hexdigest().                  *)
(***************************************************************************)
Digits == <<"0", "1", "2", "3", "4", "5", "6", "7", "8", "9">>

RECURSIVE Str(_)
Str(n) == IF n < 10 THEN <<Digits[n + 1]>>
          ELSE Str(n \div 10) \o <<Digits[(n % 10) + 1]>>

\* The digest is an injective tag of the hashed bytes.
Sha256Hex(bytes) == <<"sha256", bytes>>

(***************************************************************************)
(* dict: a sequence of [key, value] in insertion order, keys distinct.     *)
(***************************************************************************)
Keys(d) == [k \in 1..Len(d) |-> d[k].key]
HasKey(d, key) == \E k \in 1..Len(d) : d[k].key = key

DictSet(d, key, value) ==
    IF HasKey(d, key)
    THEN [k \in 1..Len(d) |->
            IF d[k].key = key THEN [key |-> key, value |-> value] ELSE d[k]]
    ELSE Append(d, [key |-> key, value |-> value])

\* range(N) raises TypeError unless N is an int.
RangeRaises(N) == N.type # "int"

\* The body of "for i in range(N)" from generator state s with dict d.
RECURSIVE GenLoop(_, _, _)
GenLoop(n, s, d) ==
    IF n = 0 THEN d
    ELSE LET draw == RandInt(KeyLow, KeyHigh, s)
             key == draw[1]
             value == Sha256Hex(Str(key))
         IN GenLoop(n - 1, draw[2], DictSet(d, key, value))

\* The mapping returned when range(N) does not raise.
generate_key_value_pairs(seed, N, entropy) ==
    GenLoop(N.val, RandomSeed(seed, entropy), <<>>)

Gen(seed, N, pairs) == [seed |-> seed, N |-> N, pairs |-> pairs]

\* The OS entropy matters to random.seed(None) only.
Entropies(seed) == IF seed = None THEN OsEntropy ELSE {0}

\* The entropy a run of main() is tried with: the one whose keys repeat.
RunEntropy == {4099}
RunEntropies(seed) == IF seed = None THEN RunEntropy ELSE {0}

\* The earlier call kept for comparison: one with an int seed, either the
\* one already kept or the latest.
Remember(keep) ==
    IF keep \/ lastGen = <<>> \/ lastGen[1].seed = None
    THEN remembered ELSE lastGen

\* One call of generate_key_value_pairs(seed, N).
GenerateKeyValuePairs ==
    /\ pc = "call"
    /\ \E seed \in Seeds, N \in CallLots, keep \in BOOLEAN :
       \E entropy \in Entropies(seed) :
         IF RangeRaises(N)
         THEN /\ genRaised' = "TypeError"
              /\ UNCHANGED <<lastGen, remembered>>
         ELSE /\ genRaised' = ""
              /\ lastGen' = <<Gen(seed, N, generate_key_value_pairs(seed, N, entropy))>>
              /\ remembered' = Remember(keep)
    /\ UNCHANGED <<file, lastCall>>
    /\ UNCHANGED loopVars

(***************************************************************************)
(* validation_set(seed, length): one call, i.e. the start of one run.      *)
(***************************************************************************)
\* The condition of the "Seed has changed" branch.
SeedChanged(seed, saved_seed) == Truthy(seed) /\ saved_seed # seed

\* The content of the cache file: the pickle of (seed, key_value_pairs), or
\* nothing when the file was opened for writing and the dump did not happen.
SavedFile(seed, pairs) == [seed |-> seed, pairs |-> pairs, bytes |-> "pickle"]
EmptyFile == [seed |-> None, pairs |-> <<>>, bytes |-> ""]

\* pickle.load raises EOFError on a file of 0 bytes.
Unreadable(f) == f # <<>> /\ f[1].bytes = ""

\* validation_set(seed, length) gets to a generate_key_value_pairs call.
Generates(f, seed) ==
    f = <<>> \/ (~Unreadable(f) /\ SeedChanged(seed, f[1].seed))

\* What validation_set(seed, length) does with cache file f: the file it
\* leaves, whether it generated, the exception it raised, what it returned.
ValidationSetResult(f, seed, length, entropy) ==
    IF Unreadable(f)
    THEN [file |-> f, regenerated |-> FALSE, raised |-> "EOFError",
          returned |-> <<>>]
    ELSE IF ~Generates(f, seed)
    THEN [file |-> f, regenerated |-> FALSE, raised |-> "",
          returned |-> f[1].pairs]
    ELSE IF RangeRaises(length)
    \* generate_key_value_pairs raises before the file is opened for
    \* writing; main() has no handler around the call, the run ends
    THEN [file |-> f, regenerated |-> FALSE, raised |-> "TypeError",
          returned |-> <<>>]
    ELSE LET fresh == generate_key_value_pairs(seed, length, entropy)
         IN [file |-> <<SavedFile(seed, fresh)>>,
             regenerated |-> TRUE, raised |-> "", returned |-> fresh]

Call(seed, length, regenerated, exc, returned) ==
    [seed |-> seed, length |-> length, existed |-> (file # <<>>), saved |-> file,
     regenerated |-> regenerated, raised |-> exc, returned |-> returned]

validation_set(seed, length, entropy, keep) ==
    LET r == ValidationSetResult(file, seed, length, entropy)
    IN /\ file' = r.file
       /\ lastCall' = <<Call(seed, length, r.regenerated, r.raised, r.returned)>>
       /\ IF r.regenerated
          THEN /\ lastGen' = <<Gen(seed, length, r.returned)>>
               /\ remembered' = Remember(keep)
               /\ genRaised' = ""
          ELSE IF r.raised = "TypeError"
          THEN genRaised' = r.raised /\ UNCHANGED <<lastGen, remembered>>
          ELSE UNCHANGED <<remembered, lastGen, genRaised>>

\* validation_set(seed=config.seed, length=config.validation_lot), run after
\* run on the same cache file.
ValidationSet ==
    /\ pc = "cache"
    /\ \E seed \in Seeds, length \in ConfigLots, keep \in BOOLEAN :
       \E entropy \in RunEntropies(seed) :
          validation_set(seed, length, entropy, keep)
    /\ UNCHANGED loopVars

(***************************************************************************)
(* binary32 arithmetic on non-negative values.                             *)
(***************************************************************************)
Zero32 == <<0, 0>>

\* n more quotient bits of r / b (r < b), appended to q.
RECURSIVE LongDivBits(_, _, _, _)
LongDivBits(r, b, n, q) ==
    IF n = 0 THEN <<q, r>>
    ELSE IF 2 * r >= b THEN LongDivBits(2 * r - b, b, n - 1, 2 * q + 1)
         ELSE LongDivBits(2 * r, b, n - 1, 2 * q)

\* <<a, b, e>> with the same a / b * 2^e and b <= a < 2b.
RECURSIVE NormRatio(_, _, _)
NormRatio(a, b, e) ==
    IF a < b THEN NormRatio(2 * a, b, e - 1)
    ELSE IF a >= 2 * b THEN NormRatio(a, 2 * b, e + 1)
    ELSE <<a, b, e>>

\* The binary32 nearest to a / b (a, b > 0), ties to even.
RoundRatio(a, b) ==
    LET n == NormRatio(a, b, 0)
        d == LongDivBits(n[1] - n[2], n[2], 24, 1)
        m == d[1] \div 2
        up == (d[1] % 2 = 1) /\ (d[2] > 0 \/ m % 2 = 1)
        m2 == IF up THEN m + 1 ELSE m
    IN IF m2 = Pow2(24) THEN <<Pow2(23), n[3] - 22>> ELSE <<m2, n[3] - 23>>

F32Div(x, y) ==
    IF x[1] = 0 THEN Zero32
    ELSE LET r == RoundRatio(x[1], y[1]) IN <<r[1], r[2] + x[2] - y[2]>>

F32Add(x, y) ==
    IF x[1] = 0 THEN y
    ELSE IF y[1] = 0 THEN x
    ELSE LET lo == IF x[2] < y[2] THEN x[2] ELSE y[2]
             a == x[1] * Pow2(x[2] - lo) + y[1] * Pow2(y[2] - lo)
             r == RoundRatio(a, 1)
         IN <<r[1], r[2] + lo>>

F32Less(x, y) ==
    IF y[1] = 0 THEN FALSE
    ELSE IF x[1] = 0 THEN TRUE
    ELSE x[2] < y[2] \/ (x[2] = y[2] /\ x[1] < y[1])

F32Max(x, y) == IF F32Less(x, y) THEN y ELSE x

F32Abs(x) == <<IF x[1] < 0 THEN 0 - x[1] ELSE x[1], x[2]>>

(***************************************************************************)
(* main(): the validation loop.                                            *)
(***************************************************************************)
\* Python floats of the score expression, counted in tenths.
One == 10
Alpha == 9

\* Storing the Python float t/10 into the float32 tensor.
ToFloat32(t) == IF t = 0 THEN Zero32 ELSE RoundRatio(t, One)

\* The values the score tensor can hold.
One32 == ToFloat32(One)
Alpha32 == ToFloat32(Alpha)

\* scores[i] = alpha * score + (1 - alpha) * 0
ScoreWriteOffset(sc, idx, score) ==
    [sc EXCEPT ![idx + 1] = ToFloat32(Alpha * score + (One - Alpha) * 1)]
ScoreWrite(sc, idx, score) ==
    [sc EXCEPT ![idx + 1] = ToFloat32(Alpha * score + (One - Alpha) * 0)]

\* "if i % 2 == 0" of validator.py; validator_2.py has the block commented out.
SubmitDueOdd(s, idx) == s = 1 /\ idx % 2 = 1
SubmitDueBoth(s, idx) == idx % 2 = 0
SubmitDue(s, idx) == s = 1 /\ idx % 2 = 0

\* The float32 accumulation of a sum, left to right.
RECURSIVE SeqSum(_)
SeqSum(v) ==
    IF v = <<>> THEN Zero32
    ELSE F32Add(SeqSum(SubSeq(v, 1, Len(v) - 1)), v[Len(v)])

\* eps = 1e-12 of torch.nn.functional.normalize, as a float32.
Eps32 == <<9223372, -63>>

\* torch.nn.functional.normalize(v, p=1.0, dim=0) = v / max(||v||_1, eps)
L1Norm(v) == SeqSum([k \in 1..Len(v) |-> F32Abs(v[k])])
Normalize(v) ==
    LET denom == F32Max(L1Norm(v), Eps32)
    IN [k \in 1..Len(v) |-> F32Div(v[k], denom)]

\* "if result: success(...) else: error(...)"
ResultLog(result) == IF result THEN "success" ELSE "error"

\* A response either carries the digest of the queried number or another one.
BadHash == Sha256Hex(<<"?">>)
Answers(number) == {Sha256Hex(Str(number)), BadHash}

InTry == pc \in {"query", "score", "submit", "logres", "refresh", "sleep"}

\* The statement after response i: the next response or the refresh.
AfterPass == IF i + 1 = Len(responses) THEN "refresh" ELSE "score"

\* except RuntimeError: log, then the for loop takes the next item.
RuntimeErrorHandlerRetry ==
    /\ errorLogged' = TRUE
    /\ pos' = pos
    /\ pc' = "query"
RuntimeErrorHandler ==
    /\ errorLogged' = TRUE
    /\ pos' = pos + 1
    /\ pc' = "query"

\* except KeyboardInterrupt: log, exit().
KeyboardInterruptHandler ==
    /\ pos' = pos
    /\ pc' = "exited"

\* Control leaves the try statement and goes back to the for header. The
\* names responses, i and resp_i stay bound in the code but are not read
\* again before dendrite.query and enumerate assign them: the model keeps
\* them, and the records of the round's last write and call, for the round
\* under way only.
RoundOver ==
    /\ responses' = <<>>
    /\ i' = 0
    /\ lastSub' = <<>>
    /\ lastScored' = <<>>

\* A statement of the try body raises RuntimeError: control goes to the
\* except clause of line 155.
Raise ==
    /\ raised' = "RuntimeError"
    /\ pc' = "except"

\* The files an earlier run of main() can have left: none, one written
\* with the int length main() can generate with, or one of 0 bytes (a run
\* killed between open and pickle.dump).
CacheFiles ==
    {<<>>, <<EmptyFile>>} \cup
    {<<SavedFile(seed,
                 generate_key_value_pairs(seed, IntLot(DefaultLot), entropy))>> :
       seed \in Seeds, entropy \in RunEntropy}

\* validation_hash = validation_set(seed=config.seed,
\* length=config.validation_lot), line 85. An EOFError or a TypeError ends
\* the run; so does a Ctrl-C between open(filename, 'wb') and pickle.dump,
\* which leaves a file of 0 bytes.
Start ==
    /\ pc = "start"
    /\ \E seed \in Seeds, length \in ConfigLots :
       \E entropy \in RunEntropies(seed) :
         LET r == ValidationSetResult(file, seed, length, entropy)
         IN \/ IF r.raised # ""
               THEN /\ raised' = r.raised
                    /\ pc' = "aborted"
                    /\ UNCHANGED <<file, validation_hash, interrupted>>
               ELSE /\ file' = r.file
                    /\ validation_hash' = r.returned
                    /\ raised' = ""
                    /\ pc' = "setup"
                    /\ UNCHANGED interrupted
            \/ /\ r.regenerated
               /\ file' = <<EmptyFile>>
               /\ raised' = "KeyboardInterrupt"
               /\ interrupted' = TRUE
               /\ pc' = "killed"
               /\ UNCHANGED validation_hash
    /\ UNCHANGED <<script, pos, metagraph, scores, responses, i, queried,
                   sinceQuery, scoredRound, subsRound, loggedRound, lastSub,
                   lastScored, errorLogged>>
    /\ UNCHANGED <<lastCall, remembered, lastGen, genRaised>>

\* Lines 86-117: the bittensor objects and the metagraph of line 101 (a
\* RuntimeError of these calls is caught by no handler), the registration
\* test of lines 104-106 (exit() when the hotkey is not in the metagraph),
\* and scores = ones_like(metagraph.S).
Setup ==
    /\ pc = "setup"
    /\ \/ \E n \in 0..MaxPeers, registered \in BOOLEAN :
            /\ registered => n >= 1
            /\ metagraph' = n
            /\ IF registered
               THEN /\ scores' = [k \in 1..n |-> One32]
                    /\ raised' = ""
                    /\ pc' = "query"
               ELSE /\ scores' = scores
                    /\ raised' = "SystemExit"
                    /\ pc' = "aborted"
       \/ /\ raised' = "RuntimeError"
          /\ pc' = "aborted"
          /\ UNCHANGED <<metagraph, scores>>
    /\ UNCHANGED <<script, validation_hash, pos, responses, i, queried,
                   sinceQuery, scoredRound, subsRound, loggedRound, lastSub,
                   lastScored, errorLogged, interrupted>>
    /\ UNCHANGED cacheVars

\* dendrite.query(metagraph.axons, ToHash(nounce_input=number), ...)
\* pc = "query" stands at the for header with the try statement next.
Query ==
    /\ pc = "query"
    /\ pos <= Len(validation_hash)
    /\ LET number == validation_hash[pos].key
       IN /\ queried' = Append(queried, number)
          /\ sinceQuery' = <<>>
          /\ scoredRound' = 0
          /\ subsRound' = 0
          /\ loggedRound' = 0
          /\ lastSub' = <<>>
          /\ lastScored' = <<>>
          /\ errorLogged' = FALSE
          /\ i' = 0
          /\ \/ /\ responses' \in [1..metagraph -> Answers(number)]
                /\ raised' = ""
                /\ pc' = IF metagraph = 0 THEN "refresh" ELSE "score"
                /\ UNCHANGED <<pos, interrupted>>
             \/ /\ Raise
                /\ UNCHANGED <<pos, responses, interrupted>>
             \/ /\ raised' = "KeyboardInterrupt"
                /\ interrupted' = TRUE
                /\ KeyboardInterruptHandler
                /\ UNCHANGED responses
    /\ UNCHANGED <<script, validation_hash, metagraph, scores>>
    /\ UNCHANGED cacheVars

\* "for i, resp_i in enumerate(responses)" up to the write scores[i] = ...
Score ==
    /\ pc = "score"
    /\ i < Len(responses)
    /\ \/ IF i >= Len(scores)
          THEN \* the write raises IndexError, which no handler catches
               /\ raised' = "IndexError"
               /\ pc' = "crashed"
               /\ UNCHANGED <<scores, i, scoredRound, lastScored, lastSub>>
          ELSE LET hash == validation_hash[pos].value
                   resp_i == responses[i + 1]
                   score == IF resp_i = hash THEN 1 ELSE 0
                   written == ScoreWrite(scores, i, score)
               IN /\ scores' = written
                  /\ scoredRound' = scoredRound + 1
                  /\ lastScored' = <<[index |-> i, match |-> (resp_i = hash),
                                      value |-> written[i + 1]]>>
                  /\ lastSub' = <<>>
                  /\ raised' = ""
                  /\ IF SubmitDue(script, i)
                     THEN pc' = "submit" /\ i' = i
                     ELSE pc' = AfterPass /\ i' = i + 1
       \/ \* a statement before the write raises RuntimeError
          /\ Raise
          /\ UNCHANGED <<scores, i, scoredRound, lastScored, lastSub>>
    /\ UNCHANGED <<script, validation_hash, pos, metagraph, responses, queried,
                   sinceQuery, subsRound, loggedRound, errorLogged, interrupted>>
    /\ UNCHANGED cacheVars

\* weights = normalize(scores); result = subtensor.set_weights(..., uids =
\* metagraph.uids, weights = weights, wait_for_inclusion = True)
SetWeights ==
    /\ pc = "submit"
    /\ subsRound' = subsRound + 1
    /\ \E outcome \in {"True", "False", "RuntimeError", "KeyboardInterrupt"} :
         /\ lastSub' = <<[index |-> i, uids |-> metagraph,
                          weights |-> Normalize(scores), after |-> scores,
                          outcome |-> outcome, log |-> "none"]>>
         /\ IF outcome = "RuntimeError"
            THEN Raise /\ UNCHANGED <<pos, interrupted>>
            ELSE IF outcome = "KeyboardInterrupt"
            THEN /\ raised' = outcome
                 /\ interrupted' = TRUE
                 /\ KeyboardInterruptHandler
            ELSE /\ raised' = ""
                 /\ pc' = "logres"
                 /\ UNCHANGED <<pos, interrupted>>
    /\ UNCHANGED <<script, validation_hash, metagraph, scores, responses, i,
                   queried, sinceQuery, scoredRound, loggedRound, lastScored,
                   errorLogged>>
    /\ UNCHANGED cacheVars

\* if result: bt.logging.success(...) else: bt.logging.error(...)
LogResult ==
    /\ pc = "logres"
    /\ lastSub' = <<[lastSub[1] EXCEPT
                       !.log = ResultLog(lastSub[1].outcome = "True")]>>
    /\ loggedRound' = loggedRound + 1
    /\ raised' = ""
    /\ i' = i + 1
    /\ pc' = AfterPass
    /\ UNCHANGED <<script, validation_hash, pos, metagraph, scores, responses,
                   queried, sinceQuery, scoredRound, subsRound, lastScored,
                   errorLogged, interrupted>>
    /\ UNCHANGED cacheVars

\* metagraph = subtensor.metagraph(config.netuid)
Refresh ==
    /\ pc = "refresh"
    /\ \/ /\ \E n \in 0..MaxPeers : metagraph' = n
          /\ sinceQuery' = Append(sinceQuery, "refresh")
          /\ raised' = ""
          /\ pc' = "sleep"
       \/ /\ Raise
          /\ UNCHANGED <<metagraph, sinceQuery>>
    /\ UNCHANGED <<script, validation_hash, pos, scores, responses, i, queried,
                   scoredRound, subsRound, loggedRound, lastSub, lastScored,
                   errorLogged, interrupted>>
    /\ UNCHANGED cacheVars

\* time.sleep(bt.__blocktime__), the last statement of the try body.
SleptNot(events) == events
Slept(events) == Append(events, "sleep")

Sleep ==
    /\ pc = "sleep"
    /\ \/ /\ sinceQuery' = Slept(sinceQuery)
          /\ raised' = ""
          /\ pos' = pos + 1
          /\ pc' = "query"
          /\ RoundOver
       \/ /\ Raise
          /\ UNCHANGED <<sinceQuery, pos, responses, i, lastSub, lastScored>>
    /\ UNCHANGED <<script, validation_hash, metagraph, scores, queried,
                   scoredRound, subsRound, loggedRound, errorLogged,
                   interrupted>>
    /\ UNCHANGED cacheVars

\* The body of "except RuntimeError" (lines 155-157).
ExceptRuntimeError ==
    /\ pc = "except"
    /\ RuntimeErrorHandler
    /\ RoundOver
    /\ UNCHANGED <<script, validation_hash, metagraph, scores, queried,
                   sinceQuery, raised, scoredRound, subsRound, loggedRound,
                   interrupted>>
    /\ UNCHANGED cacheVars

\* Ctrl-C between two statements of the try body, or while the refresh or
\* the sleep blocks: the except clause of line 159 catches it.
Interrupt ==
    /\ InTry
    /\ pc = "query" => pos <= Len(validation_hash)
    /\ raised' = "KeyboardInterrupt"
    /\ interrupted' = TRUE
    /\ KeyboardInterruptHandler
    /\ UNCHANGED <<script, validation_hash, metagraph, scores, responses, i,
                   queried, sinceQuery, scoredRound, subsRound, loggedRound,
                   lastSub, lastScored, errorLogged>>
    /\ UNCHANGED cacheVars

\* Ctrl-C outside the try body: before the loop, at the for header, or in
\* the body of except RuntimeError. No handler catches it, main() ends with
\* the KeyboardInterrupt.
OutsideTry == pc \in {"start", "setup", "query", "except"}
InterruptUncaught ==
    /\ OutsideTry
    /\ raised' = "KeyboardInterrupt"
    /\ interrupted' = TRUE
    /\ pc' = "killed"
    /\ UNCHANGED <<script, validation_hash, pos, metagraph, scores, responses,
                   i, queried, sinceQuery, scoredRound, subsRound, loggedRound,
                   lastSub, lastScored, errorLogged>>
    /\ UNCHANGED cacheVars

\* validation_hash.items() is exhausted: main() returns.
LoopEnd ==
    /\ pc = "query"
    /\ pos > Len(validation_hash)
    /\ pc' = "done"
    /\ raised' = ""
    /\ UNCHANGED <<script, validation_hash, pos, metagraph, scores, responses, i,
                   queried, sinceQuery, scoredRound, subsRound, loggedRound,
                   lastSub, lastScored, errorLogged, interrupted>>
    /\ UNCHANGED cacheVars

(***************************************************************************)
(* Specifications.                                                         *)
(***************************************************************************)
LoopStart ==
    /\ pos = 1
    /\ responses = <<>>
    /\ i = 0
    /\ queried = <<>>
    /\ sinceQuery = <<>>
    /\ raised = ""
    /\ scoredRound = 0
    /\ subsRound = 0
    /\ loggedRound = 0
    /\ lastSub = <<>>
    /\ lastScored = <<>>
    /\ errorLogged = FALSE
    /\ interrupted = FALSE

\* Either the cache file over a sequence of runs, starting without a file
\* (pc = "cache": each step is the validation_set call of one run), or
\* generate_key_value_pairs called on its own over its arguments
\* (pc = "call").
InitCache ==
    /\ file = <<>>
    /\ lastCall = <<>>
    /\ remembered = <<>>
    /\ lastGen = <<>>
    /\ genRaised = ""
    /\ script = 1
    /\ validation_hash = <<>>
    /\ pc \in {"cache", "call"}
    /\ metagraph = 1
    /\ scores = <<One32>>
    /\ LoopStart

NextCache ==
    \/ ValidationSet
    \/ GenerateKeyValuePairs

SpecCache == InitCache /\ [][NextCache]_vars

\* One run of main() of either script, from its first line, on a cache file
\* an earlier run can have left.
Init ==
    /\ file \in CacheFiles
    /\ lastCall = <<>>
    /\ remembered = <<>>
    /\ lastGen = <<>>
    /\ genRaised = ""
    /\ script \in {1, 2}
    /\ validation_hash = <<>>
    /\ metagraph = 0
    /\ scores = <<>>
    /\ pc = "start"
    /\ LoopStart

Next ==
    \/ Start
    \/ Setup
    \/ Query
    \/ Score
    \/ SetWeights
    \/ LogResult
    \/ Refresh
    \/ Sleep
    \/ ExceptRuntimeError
    \/ Interrupt
    \/ InterruptUncaught
    \/ LoopEnd

Spec == Init /\ [][Next]_vars

(***************************************************************************)
(* Properties.                                                             *)
(***************************************************************************)
DigitValue(c) == CHOOSE n \in 0..9 : Digits[n + 1] = c

RECURSIVE DecimalValue(_)
DecimalValue(ds) ==
    IF Len(ds) = 1 THEN DigitValue(ds[1])
    ELSE 10 * DecimalValue(SubSeq(ds, 1, Len(ds) - 1)) + DigitValue(ds[Len(ds)])

\* ds is the decimal string of key: digits only, no leading zero, value key.
IsDecimalOf(ds, key) ==
    /\ Len(ds) >= 1
    /\ \A k \in 1..Len(ds) : \E n \in 0..9 : Digits[n + 1] = ds[k]
    /\ Len(ds) > 1 => ds[1] # "0"
    /\ DecimalValue(ds) = key

WellFormed(pairs) ==
    /\ \A k \in 1..Len(pairs) :
         /\ pairs[k].key \in 0..10000
         /\ pairs[k].value[1] = "sha256"
         /\ IsDecimalOf(pairs[k].value[2], pairs[k].key)
    /\ \A a, b \in 1..Len(pairs) : a # b => pairs[a].key # pairs[b].key

NoRepeats(q) == \A a, b \in 1..Len(q) : a # b => q[a] # q[b]

\* The exact sum of the float32 weights w, counted in units of 2^-30.
UnitSum == Pow2(30)
Ulp == Pow2(6)
RECURSIVE SumUnits(_)
SumUnits(w) ==
    IF w = <<>> THEN 0
    ELSE SumUnits(Tail(w)) + (IF w[1][1] = 0 THEN 0 ELSE w[1][1] * Pow2(w[1][2] + 30))

\* C1: a validation_set call that finds the cache file regenerates the set
\* and overwrites the file if and only if the given seed differs from the
\* saved seed; otherwise it returns the stored mapping and leaves the file.
C1_RegeneratedIffSeedDiffers ==
    (lastCall # <<>> /\ lastCall[1].existed) =>
        LET call == lastCall[1]
            saved == call.saved[1]
        IN /\ call.regenerated <=> (call.seed # saved.seed)
           /\ ~call.regenerated => (file = call.saved /\ call.returned = saved.pairs)

\* C2: in validator.py the set_weights calls of a round are exactly the even
\* response indices: before response i is scored the round has made
\* ceil(i/2) calls and logged the result of each, the write for an even i is
\* followed by one call and one result log, a round that reaches the refresh
\* has scored all n responses with ceil(n/2) calls, and each call carries the
\* L1 normalization of the scores as they stand right after the write.
C2_EveryOtherResponse ==
    script = 1 =>
        /\ pc = "score" =>
             (scoredRound = i /\ subsRound = (i + 1) \div 2 /\ loggedRound = subsRound)
        /\ pc = "submit" =>
             (/\ i % 2 = 0
              /\ scoredRound = i + 1
              /\ subsRound = i \div 2
              /\ loggedRound = subsRound
              /\ lastScored # <<>>
              /\ lastScored[1].index = i)
        /\ pc = "logres" =>
             (/\ i % 2 = 0
              /\ scoredRound = i + 1
              /\ subsRound = i \div 2 + 1
              /\ loggedRound = subsRound - 1
              /\ lastSub # <<>>
              /\ lastSub[1].index = i
              /\ lastSub[1].outcome \in {"True", "False"}
              /\ lastSub[1].log = "none")
        /\ pc \in {"refresh", "sleep"} =>
             (/\ scoredRound = Len(responses)
              /\ subsRound = (Len(responses) + 1) \div 2
              /\ loggedRound = subsRound)
        /\ lastSub # <<>> =>
             LET sub == lastSub[1]
                 n == Len(sub.after)
             IN /\ sub.index % 2 = 0
                /\ Len(sub.weights) = n
                \* the vector of the call, looked at until its result is logged
                \* (logging changes neither weights nor after)
                /\ sub.log = "none" =>
                     (/\ sub.weights = Normalize(sub.after)
                      /\ \A k \in 1..n :
                           (sub.weights[k][1] = 0) <=> (sub.after[k][1] = 0)
                      /\ \A j, k \in 1..n :
                           F32Less(sub.after[j], sub.after[k])
                             => ~F32Less(sub.weights[k], sub.weights[j])
                      /\ (\E k \in 1..n : sub.after[k][1] # 0) =>
                           (/\ SumUnits(sub.weights) >= UnitSum - n * Ulp
                            /\ SumUnits(sub.weights) <= UnitSum + n * Ulp))
                /\ lastScored[1].index = sub.index => sub.after = scores
                /\ sub.log # "none" =>
                     (sub.log = IF sub.outcome = "True" THEN "success" ELSE "error")

C2_Witness ==
    /\ script = 1
    /\ pc = "refresh"
    /\ Len(responses) = 3
    /\ subsRound = 2
    /\ loggedRound = 2
    /\ lastSub # <<>>
    /\ lastSub[1].index = 2
    /\ lastSub[1].outcome = "False"
    /\ lastSub[1].log = "error"

\* The last round of the run went through the whole try body: the sleep
\* returned, no handler ran; scoredRound is the number of its responses.
RoundCompleted == pc = "query" /\ queried # <<>> /\ raised = ""

\* C3 as stated: in either script, a round with at least one response that
\* has completed made a set_weights call.
C3_BothScriptsSubmit ==
    (RoundCompleted /\ scoredRound > 0) => subsRound >= 1

\* C3 amended: in validator.py a completed round with at least one response
\* made a set_weights call; validator_2.py never calls set_weights.
C3_OnlyValidatorSubmits ==
    /\ (script = 1 /\ RoundCompleted /\ scoredRound > 0) => subsRound >= 1
    /\ script = 2 => (lastSub = <<>> /\ subsRound = 0 /\ pc # "submit")

C3_Witness ==
    /\ script = 1
    /\ RoundCompleted
    /\ scoredRound = 2
    /\ subsRound = 1
    /\ loggedRound = 1

\* C4: a RuntimeError raised by a statement of the try body (query, scoring,
\* weight submission, refresh, sleep) goes to the handler, which logs it and
\* moves the loop to the next key, and no key is queried twice (the only
\* other RuntimeError is one raised before the loop, which ends the run); a
\* KeyboardInterrupt ends the process, through the handler's exit() inside
\* the try body and uncaught elsewhere, and there is no further query, score
\* write or weight submission.
C4_Handlers ==
    [][/\ raised' = "RuntimeError" =>
            \/ (InTry /\ pc' = "except" /\ pos' = pos)
            \/ (pc = "setup" /\ pc' = "aborted")
            \/ (pc = "except" /\ pc' = "query" /\ errorLogged' /\ pos' = pos + 1)
       /\ pc = "except" =>
            \/ (pc' = "query" /\ errorLogged' /\ pos' = pos + 1)
            \/ (pc' = "killed" /\ interrupted')
       /\ NoRepeats(queried')
       /\ raised' = "KeyboardInterrupt" =>
            (pc' \in {"exited", "killed"} /\ interrupted')
       /\ interrupted =>
            (/\ queried' = queried
             /\ scores' = scores
             /\ lastScored' = lastScored
             /\ lastSub' = lastSub
             /\ subsRound' = subsRound
             /\ loggedRound' = loggedRound)]_vars

C4_Witness ==
    /\ errorLogged
    /\ Len(queried) >= 2
    /\ interrupted
    /\ pc = "exited"

\* The next query is due: the for loop holds a key and one was queried before.
NextQueryDue == pc = "query" /\ pos <= Len(validation_hash) /\ queried # <<>>

\* C5 as stated: any two consecutive queries are separated by one refresh
\* followed by one sleep.
C5_RefreshSleepBetweenQueries ==
    NextQueryDue => sinceQuery = <<"refresh", "sleep">>

\* C5 amended: two consecutive queries are separated by one refresh followed
\* by one sleep when the earlier round ended without error; when it ended in
\* the RuntimeError handler no sleep was completed, and the refresh was done
\* only if it was the sleep that raised.
C5_RefreshSleepUnlessError ==
    NextQueryDue =>
        IF raised = "RuntimeError"
        THEN sinceQuery \in {<<>>, <<"refresh">>}
        ELSE sinceQuery = <<"refresh", "sleep">>

C5_Witness ==
    /\ NextQueryDue
    /\ Len(queried) >= 2
    /\ raised = ""
    /\ sinceQuery = <<"refresh", "sleep">>
    /\ scoredRound > 0

\* C6: the score written for a response is alpha (0.9, as a float32) on a
\* match and 0 otherwise, whatever the entry held before, so every entry of
\* scores is 1, 0.9 or 0.
C6_ScoreValues ==
    /\ \A k \in 1..Len(scores) :
         scores[k] \in {One32, Alpha32, Zero32}
    /\ lastScored # <<>> =>
         /\ lastScored[1].value =
              IF lastScored[1].match THEN Alpha32 ELSE Zero32
         /\ scores[lastScored[1].index + 1] = lastScored[1].value

C6_Witness ==
    /\ lastScored # <<>>
    /\ lastScored[1].match
    /\ scores[lastScored[1].index + 1] = <<15099494, -24>>
    /\ scoredRound >= 2
    /\ \E k \in 1..Len(scores) : scores[k] = Zero32
    /\ \E k \in 1..Len(scores) : scores[k] = <<8388608, -23>>

\* C7: every weight vector passed to set_weights has non-negative entries
\* that add up to exactly 1.
C7_WeightsSumToOne ==
    lastSub # <<>> =>
        LET w == lastSub[1].weights
        IN /\ \A k \in 1..Len(w) : w[k][1] >= 0
           /\ SumUnits(w) = UnitSum

\* C8: every generated mapping, and so every mapping in the cache file or
\* returned by validation_set, has distinct integer keys in 0..10000, maps
\* each key to the SHA-256 digest of the key's decimal string and has at
\* most N entries; two generations with the same non-None seed and N agree.
C8_GeneratedMapping ==
    /\ file # <<>> => WellFormed(file[1].pairs)
    /\ (lastCall # <<>> /\ lastCall[1].raised = "") =>
         (WellFormed(lastCall[1].returned) /\ lastCall[1].returned = file[1].pairs)
    /\ \A g \in {lastGen, remembered} :
         g # <<>> => (WellFormed(g[1].pairs) /\ Len(g[1].pairs) <= g[1].N.val)
    /\ (/\ lastGen # <<>>
        /\ remembered # <<>>
        /\ lastGen[1].seed # None
        /\ lastGen[1].seed = remembered[1].seed
        /\ lastGen[1].N = remembered[1].N) => lastGen[1].pairs = remembered[1].pairs

C8_Witness ==
    /\ lastGen # <<>>
    /\ remembered # <<>>
    /\ lastGen[1].seed = <<2>>
    /\ remembered[1].seed = <<2>>
    /\ lastGen[1].N = IntLot(2)
    /\ remembered[1].N = IntLot(2)
    /\ Keys(lastGen[1].pairs) = <<926, 1500>>
    /\ lastGen[1].pairs[1].value = Sha256Hex(<<"9", "2", "6">>)
    /\ lastGen[1].pairs[2].value = Sha256Hex(<<"1", "5", "0", "0">>)

\* C9: once main() has built the score vector (line 114), it has one entry
\* per peer of the current metagraph.
C9_ScoresMatchPeers ==
    pc \notin {"start", "setup", "aborted"} => Len(scores) = metagraph

\* C10: a run without KeyboardInterrupt ends having queried every key of the
\* validation set exactly once, in the mapping's order.
C10_OneQueryPerKey ==
    (~interrupted /\ pc \in {"done", "crashed"}) =>
        (pc = "done" /\ queried = Keys(validation_hash))

====
